---- MODULE Spec2Model ----
(***************************************************************************)
(* ScalaWatch (src/scrape.py): scrape() extracts per-building office       *)
(* counts and areas from the fetched markup, save_csv() merges the rows    *)
(* of one date into the persisted CSV, main() sequences them.              *)
(*                                                                         *)
(* Three specifications share the state:                                   *)
(*   Spec         runs of main() starting from an absent or empty file     *)
(*   SpecStore    calls of save_csv() on an arbitrary persisted dataset    *)
(*   SpecExtract  one call of scrape() on an arbitrary document            *)
(***************************************************************************)
EXTENDS Integers, Sequences, FiniteSets, TLC

VARIABLES
    file,       \* data/offices.csv: NoFile, or the sequence of its data rows (cells are text)
    prevFile,   \* history: the file as it was before the latest operation
    doc,        \* the markup the latest fetch returned, as its elements in document order
    today,      \* date.today().isoformat() of the latest run
    rows,       \* the rows scrape() returned / save_csv() was given, latest operation
    repeated,   \* history: the latest operation saved the very rows the one before it saved
    outcome,    \* how the latest operation ended
    report,     \* docs/index.html: NoReport, or the dataset it was rendered from
    fetched,    \* history: the dates on which a fetch succeeded
    series,     \* the sequences and current values generate_report() derived for the report
    pending     \* rows an open csv writer has still to write, in order

vars == <<file, prevFile, doc, today, rows, repeated, outcome, report, fetched, series,
          pending>>

----------------------------------------------------------------------------
(* Bounds *)

\* longest document of the general document family
MaxNodes == 4
\* most unrelated elements inserted into a document holding both anchor+summary pairs
MaxFill == 2
\* most rows of the dataset a save_csv() call starts from
MaxFileRows == 2
\* most rows of the dataset a generate_report() call is given
MaxAggRows == 3

----------------------------------------------------------------------------
(* Text: a string is the sequence of its characters *)

Digits == {"0", "1", "2", "3", "4", "5", "6", "7", "8", "9"}

DigitVal ==
    [c \in Digits |->
        CASE c = "0" -> 0 [] c = "1" -> 1 [] c = "2" -> 2 [] c = "3" -> 3
          [] c = "4" -> 4 [] c = "5" -> 5 [] c = "6" -> 6 [] c = "7" -> 7
          [] c = "8" -> 8 [] c = "9" -> 9]

DigitChar ==
    [n \in 0..9 |-> CHOOSE c \in Digits : DigitVal[c] = n]

\* re.sub(r"[^\d]", "", text): the digits of text, in order
StripNonDigits(text) == SelectSeq(text, LAMBDA c : c \in Digits)

\* int(s) of a non-empty digit string (leading zeros allowed)
RECURSIVE ParseInt(_)
ParseInt(s) ==
    IF Len(s) = 0 THEN 0
    ELSE 10 * ParseInt(SubSeq(s, 1, Len(s) - 1)) + DigitVal[s[Len(s)]]

\* int(s) raises ValueError on the empty string
IntRaises(s) == Len(s) = 0

\* str(n) of a non-negative int: what csv.DictWriter writes for an int cell
RECURSIVE Str(_)
Str(n) ==
    IF n < 10 THEN <<DigitChar[n]>>
    ELSE Str(n \div 10) \o <<DigitChar[n % 10]>>

----------------------------------------------------------------------------
(* Program constants *)

BUILDINGS == <<"SCALA", "JAKUB">>

\* slug_to_building, in the dict's iteration (insertion) order
slug_to_building ==
    << [slug |-> "dum-scala", name |-> "SCALA"],
       [slug |-> "dum-jakub", name |-> "JAKUB"] >>

NoBuilding == "None"

\* os.path.exists(CSV_PATH) is false / the file holds these data rows after its header
NoFile == [exists |-> FALSE, rows |-> <<>>]
NoReport == [exists |-> FALSE, rows |-> <<>>]

\* date.today().isoformat() values
D1 == <<"2", "0", "2", "4", "-", "0", "1", "-", "0", "1">>
D2 == <<"2", "0", "2", "4", "-", "0", "1", "-", "0", "2">>
D3 == <<"2", "0", "2", "4", "-", "0", "1", "-", "1", "0">>
Dates == {D1, D2, D3}
NoDate == <<>>

\* no report generated yet: no sequences, no current values
NoSeries ==
    [dates |-> <<>>,
     scala_m2 |-> <<>>, jakub_m2 |-> <<>>, total_m2 |-> <<>>,
     scala_count |-> <<>>, jakub_count |-> <<>>, total_count |-> <<>>,
     hasLatest |-> FALSE, latest |-> NoDate,
     current_scala |-> [offices |-> 0, m2 |-> 0],
     current_jakub |-> [offices |-> 0, m2 |-> 0]]

----------------------------------------------------------------------------
(* Documents: the parsed markup as its elements in document order.        *)
(* An href is the sequence of its path segments; `slug in href` is true   *)
(* when some segment is the slug.                                          *)

Anchor(h) == [kind |-> "a", hasHref |-> TRUE, href |-> h, spans |-> <<>>]
AnchorNoHref == [kind |-> "a", hasHref |-> FALSE, href |-> <<>>, spans |-> <<>>]
Summary(sp) == [kind |-> "p.text-red", hasHref |-> FALSE, href |-> <<>>, spans |-> sp]
Other == [kind |-> "div", hasHref |-> FALSE, href |-> <<>>, spans |-> <<>>]

AScala == Anchor(<<"cs", "dum-scala">>)
AJakub == Anchor(<<"cs", "dum-jakub">>)
AUnknown == Anchor(<<"cs", "kontakt">>)
ABoth == Anchor(<<"cs", "dum-jakub", "dum-scala">>)

\* span texts: "12 kancelari", "340 m2" with a superscript two, "1 0", ...
T12 == <<"1", "2", " ", "k">>
T340 == <<"3", "4", "0", " ", "m", "^2">>
T0k == <<"0", " ", "k">>
T0m == <<"0", " ", "m", "^2">>
T5 == <<"0", "5">>
T10 == <<"1", " ", "0">>
T9 == <<"9">>
TWord == <<"k">>
TEmpty == <<>>

S12_340 == Summary(<<T12, T340>>)
S0_0 == Summary(<<T0k, T0m>>)
S5_10 == Summary(<<T5, T10, T9>>)
SOneSpan == Summary(<<T9>>)
SNoSpan == Summary(<<>>)
SNoDigit1 == Summary(<<TWord, T340>>)
SNoDigit2 == Summary(<<T12, TEmpty>>)

IsSummary(n) == n.kind = "p.text-red"
IsLink(n) == n.kind = "a" /\ n.hasHref

SlugIn(slug, href) == \E k \in 1..Len(href) : href[k] = slug

\* the for/break loop over slug_to_building.items(): the first slug found in href
BuildingOfHref(href) ==
    LET hit == {k \in 1..Len(slug_to_building) : SlugIn(slug_to_building[k].slug, href)}
    IN  IF hit = {} THEN NoBuilding
        ELSE slug_to_building[CHOOSE k \in hit : \A m \in hit : k <= m].name

\* (variant: the nearest preceding anchor, with or without an href)
FindPreviousNearestAnyAnchor(d, i) ==
    LET c == {j \in 1..(i - 1) : d[j].kind = "a"}
    IN  IF c = {} THEN 0 ELSE CHOOSE j \in c : \A k \in c : k <= j

\* (variant: the nearest preceding anchor whose href names a known building)
FindPreviousKnownLink(d, i) ==
    LET c == {j \in 1..(i - 1) : IsLink(d[j]) /\ BuildingOfHref(d[j].href) # NoBuilding}
    IN  IF c = {} THEN 0 ELSE CHOOSE j \in c : \A k \in c : k <= j

\* p.find_previous("a", href=True): index of the nearest element before i that is
\* an anchor carrying an href, 0 when there is none
FindPreviousLink(d, i) ==
    LET c == {j \in 1..(i - 1) : IsLink(d[j])}
    IN  IF c = {} THEN 0 ELSE CHOOSE j \in c : \A k \in c : k <= j

\* the building a summary at index i resolves to, NoBuilding when it is skipped
ResolveBuilding(d, i) ==
    LET link == FindPreviousLink(d, i)
    IN  IF link = 0 THEN NoBuilding ELSE BuildingOfHref(d[link].href)

NotFound == [has |-> FALSE, offices |-> 0, m2 |-> 0]
EmptyFound == [b \in {BUILDINGS[k] : k \in 1..Len(BUILDINGS)} |-> NotFound]

\* (variant: the first block matched to a building keeps its value)
RECURSIVE ScanSummariesFirstWins(_, _, _)
ScanSummariesFirstWins(d, i, found) ==
    IF i > Len(d) THEN [raised |-> FALSE, found |-> found]
    ELSE IF ~IsSummary(d[i]) THEN ScanSummariesFirstWins(d, i + 1, found)
    ELSE LET building == ResolveBuilding(d, i)
             spans == d[i].spans
         IN  IF building = NoBuilding THEN ScanSummariesFirstWins(d, i + 1, found)
             ELSE IF Len(spans) < 2 THEN ScanSummariesFirstWins(d, i + 1, found)
             ELSE IF IntRaises(StripNonDigits(spans[1]))
                     \/ IntRaises(StripNonDigits(spans[2]))
                  THEN [raised |-> TRUE, found |-> found]
             ELSE IF found[building].has THEN ScanSummariesFirstWins(d, i + 1, found)
             ELSE ScanSummariesFirstWins(d, i + 1,
                      [found EXCEPT ![building] =
                          [has |-> TRUE,
                           offices |-> ParseInt(StripNonDigits(spans[1])),
                           m2 |-> ParseInt(StripNonDigits(spans[2]))]])

\* the loop `for p in soup.find_all("p", class_="text-red")` from element i on:
\* the final `found`, or raised = TRUE when an int() raised ValueError
RECURSIVE ScanSummaries(_, _, _)
ScanSummaries(d, i, found) ==
    IF i > Len(d) THEN [raised |-> FALSE, found |-> found]
    ELSE IF ~IsSummary(d[i]) THEN ScanSummaries(d, i + 1, found)
    ELSE LET building == ResolveBuilding(d, i)
             spans == d[i].spans
         IN  IF building = NoBuilding THEN ScanSummaries(d, i + 1, found)
             ELSE IF Len(spans) < 2 THEN ScanSummaries(d, i + 1, found)
             ELSE IF IntRaises(StripNonDigits(spans[1]))
                     \/ IntRaises(StripNonDigits(spans[2]))
                  THEN [raised |-> TRUE, found |-> found]
             ELSE ScanSummaries(d, i + 1,
                      [found EXCEPT ![building] =
                          [has |-> TRUE,
                           offices |-> ParseInt(StripNonDigits(spans[1])),
                           m2 |-> ParseInt(StripNonDigits(spans[2]))]])

\* the rows built from `found`: one per building of BUILDINGS, in that order
RowsOfFound(found, t) ==
    [k \in 1..Len(BUILDINGS) |->
        LET data == IF found[BUILDINGS[k]].has THEN found[BUILDINGS[k]]
                    ELSE [has |-> FALSE, offices |-> 0, m2 |-> 0]
        IN  [date |-> t, building |-> BUILDINGS[k],
             offices |-> data.offices, m2 |-> data.m2]]

\* scrape(): fetchOk is whether requests.get + raise_for_status succeeded
ScrapeResult(fetchOk, d, t) ==
    IF ~fetchOk THEN [status |-> "fetch_failed", rows |-> <<>>]
    ELSE LET scan == ScanSummaries(d, 1, EmptyFound)
         IN  IF scan.raised THEN [status |-> "raised", rows |-> <<>>]
             ELSE [status |-> "ok", rows |-> RowsOfFound(scan.found, t)]

----------------------------------------------------------------------------
(* The store *)

\* csv.DictWriter.writerow of a scraped row: every cell becomes its text
ToCsvRow(r) ==
    [date |-> r.date, building |-> r.building,
     offices |-> Str(r.offices), m2 |-> Str(r.m2)]

ToCsvRows(rs) == [k \in 1..Len(rs) |-> ToCsvRow(rs[k])]

\* read_csv(): the data rows of the file, none when it does not exist
ReadCsv(f) == IF f.exists THEN f.rows ELSE <<>>

\* (variant: the new rows are appended without dropping the rows of their date)
SaveCsvAppend(f, rs) ==
    [exists |-> TRUE, rows |-> ReadCsv(f) \o ToCsvRows(rs)]

\* (variant: the file is rewritten with the new rows only)
SaveCsvOverwrite(f, rs) ==
    [exists |-> TRUE, rows |-> ToCsvRows(rs)]

\* (variant: a date already in the file keeps its rows)
SaveCsvKeepFirst(f, rs) ==
    IF rs # <<>> /\ \E k \in 1..Len(ReadCsv(f)) : ReadCsv(f)[k].date = rs[1].date
    THEN [exists |-> TRUE, rows |-> ReadCsv(f)]
    ELSE [exists |-> TRUE, rows |-> ReadCsv(f) \o ToCsvRows(rs)]

\* (variant: the rows of the date are replaced where the date's first row was)
SaveCsvInPlace(f, rs) ==
    LET old == ReadCsv(f)
        at == {k \in 1..Len(old) : rs # <<>> /\ old[k].date = rs[1].date}
    IN  IF at = {} THEN [exists |-> TRUE, rows |-> old \o ToCsvRows(rs)]
        ELSE LET first == CHOOSE k \in at : \A m \in at : k <= m
             IN  [exists |-> TRUE,
                  rows |-> SelectSeq(SubSeq(old, 1, first - 1),
                                     LAMBDA r : r.date # rs[1].date)
                           \o ToCsvRows(rs)
                           \o SelectSeq(SubSeq(old, first + 1, Len(old)),
                                        LAMBDA r : r.date # rs[1].date)]

\* save_csv(rows): the file it leaves. today is rows[0]["date"], None for no rows
\* (no row's date equals None)
SaveCsvFile(f, rs) ==
    LET existing ==
            IF ~f.exists THEN <<>>
            ELSE IF rs = <<>> THEN f.rows
            ELSE SelectSeq(f.rows, LAMBDA r : r.date # rs[1].date)
    IN  [exists |-> TRUE, rows |-> existing \o ToCsvRows(rs)]

----------------------------------------------------------------------------
(* The driver *)

\* (variant: save_csv is called whatever scrape returned)
MainFileAlwaysSave(f, res) ==
    IF res.status = "raised" THEN f ELSE SaveCsvFile(f, res.rows)

\* main(): the file it leaves, given what scrape() did. An exception raised in
\* scrape() ends main() before save_csv; `if rows:` skips it for an empty list
MainFile(f, res) ==
    IF res.status = "raised" THEN f
    ELSE IF res.rows # <<>> THEN SaveCsvFile(f, res.rows)
    ELSE f

MainOutcome(res) ==
    CASE res.status = "ok" -> "saved"
      [] res.status = "fetch_failed" -> "fetch_failed"
      [] res.status = "raised" -> "crashed"

\* markup the runs of main() are given
RunDocs ==
    { <<>>,
      <<AScala, S12_340, AJakub, S0_0>>,
      <<AScala, S5_10, AJakub, S12_340>>,
      <<AUnknown, S12_340>>,
      <<AScala, SOneSpan>>,
      <<AScala, SNoDigit1>>,
      <<AJakub, S12_340, AScala, SNoDigit2>> }

\* one run of main(); the report is left as it is: main() does not call
\* read_csv() or generate_report()
Main ==
    \E fetchOk \in BOOLEAN, d \in RunDocs, t \in Dates :
        LET res == ScrapeResult(fetchOk, d, t)
        IN  /\ file' = MainFile(file, res)
            /\ prevFile' = file
            /\ doc' = IF fetchOk THEN d ELSE <<>>
            /\ today' = t
            /\ rows' = res.rows
            /\ repeated' = (res.status = "ok" /\ outcome = "saved" /\ rows = res.rows)
            /\ outcome' = MainOutcome(res)
            /\ fetched' = IF fetchOk THEN fetched \cup {t} ELSE fetched
            /\ UNCHANGED <<report, series, pending>>

Init ==
    /\ file \in {NoFile, [exists |-> TRUE, rows |-> <<>>]}
    /\ prevFile = file
    /\ doc = <<>>
    /\ today = NoDate
    /\ rows = <<>>
    /\ repeated = FALSE
    /\ outcome = "init"
    /\ report = NoReport
    /\ fetched = {}
    /\ series = NoSeries
    /\ pending = <<>>

Next == Main

Spec == Init /\ [][Next]_vars

----------------------------------------------------------------------------
(* save_csv() alone, on any persisted dataset *)

BuildingSet == {BUILDINGS[k] : k \in 1..Len(BUILDINGS)}

Row(t, b, v) == [date |-> t, building |-> b, offices |-> v[1], m2 |-> v[2]]

\* the row lists save_csv() is given: non-empty, all rows of one date; the
\* buildings may repeat and come in any order
RowLists ==
    UNION { { <<Row(t, "SCALA", <<12, 340>>)>>,
              <<Row(t, "SCALA", <<12, 340>>), Row(t, "JAKUB", <<0, 0>>)>>,
              <<Row(t, "JAKUB", <<0, 0>>), Row(t, "JAKUB", <<12, 340>>)>> }
          : t \in Dates }

\* the rows a persisted dataset may hold before the call
StoredRows == { ToCsvRow(Row(t, b, <<7, 70>>)) : t \in Dates, b \in BuildingSet }

StoreFiles ==
    {NoFile} \cup
    { [exists |-> TRUE, rows |-> rs] :
        rs \in UNION { [1..n -> StoredRows] : n \in 0..MaxFileRows } }

InitStore ==
    /\ file \in StoreFiles
    /\ prevFile = file
    /\ doc = <<>>
    /\ today = NoDate
    /\ rows = <<>>
    /\ repeated = FALSE
    /\ outcome = "init"
    /\ report = NoReport
    /\ fetched = {}
    /\ series = NoSeries
    /\ pending = <<>>

\* one call save_csv(rs)
SaveCsv ==
    \E rs \in RowLists :
        /\ file' = SaveCsvFile(file, rs)
        /\ prevFile' = file
        /\ today' = rs[1].date
        /\ rows' = rs
        /\ repeated' = (outcome = "saved" /\ rows = rs)
        /\ outcome' = "saved"
        /\ UNCHANGED <<doc, report, fetched, series, pending>>

NextStore == SaveCsv

SpecStore == InitStore /\ [][NextStore]_vars

----------------------------------------------------------------------------
(* save_csv() step by step, with the run interrupted at any point of the    *)
(* rewrite. open(CSV_PATH, "w") truncates the file; the rows reach it in the *)
(* order they are written.                                                  *)

\* the existing rows are read and the file is opened for writing
SaveCsvOpen ==
    /\ outcome # "writing"
    /\ \E rs \in RowLists :
        /\ pending' = SaveCsvFile(file, rs).rows
        /\ rows' = rs
        /\ today' = rs[1].date
    /\ prevFile' = file
    /\ file' = [exists |-> TRUE, rows |-> <<>>]
    /\ outcome' = "writing"
    /\ repeated' = FALSE
    /\ UNCHANGED <<doc, report, fetched, series>>

\* writer.writerow(row) of the next row
SaveCsvWriteRow ==
    /\ outcome = "writing"
    /\ pending # <<>>
    /\ file' = [exists |-> TRUE, rows |-> Append(file.rows, Head(pending))]
    /\ pending' = Tail(pending)
    /\ UNCHANGED <<prevFile, doc, today, rows, repeated, outcome, report, fetched, series>>

\* the with block ends after the last row
SaveCsvClose ==
    /\ outcome = "writing"
    /\ pending = <<>>
    /\ outcome' = "saved"
    /\ UNCHANGED <<file, prevFile, doc, today, rows, repeated, report, fetched, series,
                   pending>>

\* the process is stopped while the file is open: what was written stays
Interrupt ==
    /\ outcome = "writing"
    /\ outcome' = "interrupted"
    /\ pending' = <<>>
    /\ UNCHANGED <<file, prevFile, doc, today, rows, repeated, report, fetched, series>>

NextCrash == SaveCsvOpen \/ SaveCsvWriteRow \/ SaveCsvClose \/ Interrupt

SpecCrash == InitStore /\ [][NextCrash]_vars

----------------------------------------------------------------------------
(* scrape() alone, on any document *)

GeneralNodes ==
    {AScala, AJakub, AUnknown, ABoth, AnchorNoHref, Other,
     S12_340, S5_10, SOneSpan, SNoDigit1}

GeneralDocs == UNION { [1..n -> GeneralNodes] : n \in 0..MaxNodes }

\* elements that are neither a summary block nor an anchor of a known building
Unrelated == {Other, AnchorNoHref, AUnknown}

\* SCALA anchor, its summary, JAKUB anchor, its summary
Cores ==
    { <<AScala, S12_340, AJakub, S0_0>>,
      <<AScala, S5_10, AJakub, S12_340>> }

InsertAt(d, i, n) == SubSeq(d, 1, i) \o <<n>> \o SubSeq(d, i + 1, Len(d))

RECURSIVE Fill(_, _)
Fill(S, k) ==
    IF k = 0 THEN S
    ELSE Fill(S \cup UNION { { InsertAt(d, i, n) : i \in 0..Len(d), n \in Unrelated }
                              : d \in S },
              k - 1)

\* the cores with up to MaxFill unrelated elements inserted anywhere
PairedDocs == Fill(Cores, MaxFill)

Docs == GeneralDocs \cup PairedDocs

InitExtract ==
    /\ doc \in Docs
    /\ today = D1
    /\ file = NoFile
    /\ prevFile = NoFile
    /\ rows = <<>>
    /\ repeated = FALSE
    /\ outcome = "init"
    /\ report = NoReport
    /\ fetched = {}
    /\ series = NoSeries
    /\ pending = <<>>

ScrapeOutcome(res) ==
    CASE res.status = "ok" -> "scraped"
      [] res.status = "fetch_failed" -> "fetch_failed"
      [] res.status = "raised" -> "crashed"

\* one call of scrape(); doc is what the fetch returns when it succeeds
Scrape ==
    /\ outcome = "init"
    /\ \E fetchOk \in BOOLEAN :
        LET res == ScrapeResult(fetchOk, doc, today)
        IN  /\ rows' = res.rows
            /\ outcome' = ScrapeOutcome(res)
            /\ fetched' = IF fetchOk THEN fetched \cup {today} ELSE fetched
    /\ UNCHANGED <<file, prevFile, doc, today, repeated, report, series, pending>>

NextExtract == Scrape

SpecExtract == InitExtract /\ [][NextExtract]_vars

----------------------------------------------------------------------------
(* The aggregation of generate_report() *)

\* ord(c) of the characters of an ISO date
CharCode ==
    [c \in Digits \cup {"-"} |-> IF c = "-" THEN 45 ELSE 48 + DigitVal[c]]

\* a < b on str: the first differing character decides, a proper prefix is smaller
RECURSIVE StrLess(_, _)
StrLess(a, b) ==
    IF Len(b) = 0 THEN FALSE
    ELSE IF Len(a) = 0 THEN TRUE
    ELSE IF Head(a) # Head(b) THEN CharCode[Head(a)] < CharCode[Head(b)]
    ELSE StrLess(Tail(a), Tail(b))

\* sorted(S) of a set of distinct strings
RECURSIVE SortedSeq(_)
SortedSeq(S) ==
    IF S = {} THEN <<>>
    ELSE LET least == CHOOSE x \in S : \A y \in S \ {x} : StrLess(x, y)
         IN  <<least>> \o SortedSeq(S \ {least})

\* the keys of `daily` in the order the loop over all_data inserted them
RECURSIVE KeysInInsertionOrder(_)
KeysInInsertionOrder(all_data) ==
    IF Len(all_data) = 0 THEN <<>>
    ELSE LET before == KeysInInsertionOrder(SubSeq(all_data, 1, Len(all_data) - 1))
             d == all_data[Len(all_data)].date
         IN  IF \E k \in 1..Len(before) : before[k] = d THEN before
             ELSE Append(before, d)

\* dates = sorted(daily.keys())
DatesOf(all_data) ==
    SortedSeq({all_data[k].date : k \in 1..Len(all_data)})

zero == [offices |-> 0, m2 |-> 0]

\* daily[d].get(b, zero): the values of the last row of all_data for (d, b)
DailyGet(all_data, d, b) ==
    LET at == {k \in 1..Len(all_data) : all_data[k].date = d /\ all_data[k].building = b}
    IN  IF at = {} THEN zero
        ELSE LET last == CHOOSE k \in at : \A m \in at : m <= k
             IN  [offices |-> ParseInt(all_data[last].offices),
                  m2 |-> ParseInt(all_data[last].m2)]

\* (variant: a date without a row for b gets no entry)
BuildingSeriesSkipMissing(all_data, dates, b) ==
    LET have == SelectSeq(dates, LAMBDA d :
                    \E k \in 1..Len(all_data) :
                        all_data[k].date = d /\ all_data[k].building = b)
    IN  [i \in 1..Len(have) |-> DailyGet(all_data, have[i], b)]

\* [daily[d].get(b, zero) for d in dates]
BuildingSeries(all_data, dates, b) ==
    [i \in 1..Len(dates) |-> DailyGet(all_data, dates[i], b)]

\* (variant: the total is the first sequence alone)
ZipFirst(s, j) == s

\* [s + j for s, j in zip(s, j)]
ZipSum(s, j) ==
    LET n == IF Len(s) <= Len(j) THEN Len(s) ELSE Len(j)
    IN  [i \in 1..n |-> s[i] + j[i]]

\* (variant: the date of the last row of the file)
LatestOfLastRow(all_data, dates) ==
    IF Len(all_data) = 0 THEN [has |-> FALSE, date |-> NoDate]
    ELSE [has |-> TRUE, date |-> all_data[Len(all_data)].date]

\* latest = dates[-1] if dates else None
Latest(all_data, dates) ==
    IF Len(dates) = 0 THEN [has |-> FALSE, date |-> NoDate]
    ELSE [has |-> TRUE, date |-> dates[Len(dates)]]

\* what generate_report(all_data) derives before rendering. `if latest` is
\* false for None (and for an empty date string, which isoformat never gives)
Aggregate(all_data) ==
    LET dates == DatesOf(all_data)
        scala == BuildingSeries(all_data, dates, "SCALA")
        jakub == BuildingSeries(all_data, dates, "JAKUB")
        scala_m2 == [i \in 1..Len(scala) |-> scala[i].m2]
        jakub_m2 == [i \in 1..Len(jakub) |-> jakub[i].m2]
        scala_count == [i \in 1..Len(scala) |-> scala[i].offices]
        jakub_count == [i \in 1..Len(jakub) |-> jakub[i].offices]
        latest == Latest(all_data, dates)
        useLatest == latest.has /\ latest.date # NoDate
    IN  [dates |-> dates,
         scala_m2 |-> scala_m2, jakub_m2 |-> jakub_m2,
         total_m2 |-> ZipSum(scala_m2, jakub_m2),
         scala_count |-> scala_count, jakub_count |-> jakub_count,
         total_count |-> ZipSum(scala_count, jakub_count),
         hasLatest |-> latest.has, latest |-> latest.date,
         current_scala |-> IF useLatest THEN DailyGet(all_data, latest.date, "SCALA")
                           ELSE zero,
         current_jakub |-> IF useLatest THEN DailyGet(all_data, latest.date, "JAKUB")
                           ELSE zero]

\* the rows a dataset handed to generate_report() may hold
AggRows ==
    { ToCsvRow(Row(t, b, v)) :
        t \in Dates, b \in BuildingSet, v \in {<<0, 0>>, <<12, 340>>, <<5, 10>>} }

AggFiles ==
    {NoFile} \cup
    { [exists |-> TRUE, rows |-> rs] :
        rs \in UNION { [1..n -> AggRows] : n \in 0..MaxAggRows } }

InitReport ==
    /\ file \in AggFiles
    /\ prevFile = file
    /\ doc = <<>>
    /\ today = NoDate
    /\ rows = <<>>
    /\ repeated = FALSE
    /\ outcome = "init"
    /\ report = NoReport
    /\ fetched = {}
    /\ series = NoSeries
    /\ pending = <<>>

\* generate_report(read_csv())
GenerateReport ==
    /\ report' = [exists |-> TRUE, rows |-> ReadCsv(file)]
    /\ series' = Aggregate(ReadCsv(file))
    /\ outcome' = "reported"
    /\ UNCHANGED <<file, prevFile, doc, today, rows, repeated, fetched, pending>>

NextReport == GenerateReport

SpecReport == InitReport /\ [][NextReport]_vars

----------------------------------------------------------------------------
(* Properties of save_csv(), under SpecStore *)

DateRows(rs, t) == SelectSeq(rs, LAMBDA r : r.date = t)
OtherRows(rs, t) == SelectSeq(rs, LAMBDA r : r.date # t)
Count(rs, r) == Cardinality({k \in 1..Len(rs) : rs[k] = r})
RowSet(rs) == {rs[k] : k \in 1..Len(rs)}

\* C1: merge is idempotent for a fixed date: a save_csv(R) that repeats the
\* save_csv(R) right before it leaves the file with the same rows, in the same
\* order, as that first call left it.
C1_MergeIdempotent ==
    repeated => (file = prevFile)

C1_Witness ==
    /\ repeated
    /\ OtherRows(file.rows, today) # <<>>
    /\ Len(rows) = 2

\* C2: merge never deletes observations of other dates: after save_csv(R) with R
\* dated d, every row of the previous dataset dated other than d is still there,
\* as often and with the same cells, and no row dated other than d was added.
C2_OtherDatesKept ==
    (outcome = "saved") =>
        \A r \in RowSet(ReadCsv(prevFile)) \cup RowSet(file.rows) :
            r.date # today => Count(file.rows, r) = Count(ReadCsv(prevFile), r)

C2_Witness ==
    /\ outcome = "saved"
    /\ DateRows(ReadCsv(prevFile), today) # <<>>
    /\ OtherRows(ReadCsv(prevFile), today) # <<>>

\* C16: row order after a merge: after save_csv(R) with R dated d the file holds
\* the previous rows dated other than d, in their previous order, followed by
\* the rows of R in the order given.
C16_OthersThenNewRows ==
    (outcome = "saved") =>
        /\ Len(file.rows) = Len(OtherRows(ReadCsv(prevFile), today)) + Len(rows)
        /\ SubSeq(file.rows, 1, Len(file.rows) - Len(rows))
               = OtherRows(ReadCsv(prevFile), today)
        /\ \A k \in 1..Len(rows) :
               LET r == file.rows[Len(file.rows) - Len(rows) + k]
               IN  /\ r.date = rows[k].date
                   /\ r.building = rows[k].building
                   /\ ParseInt(r.offices) = rows[k].offices
                   /\ ParseInt(r.m2) = rows[k].m2

\* a same-day re-run whose date had its rows before rows of other dates
C16_Witness ==
    /\ outcome = "saved"
    /\ Len(ReadCsv(prevFile)) >= 3
    /\ ReadCsv(prevFile)[1].date = today
    /\ ReadCsv(prevFile)[Len(ReadCsv(prevFile))].date # today
    /\ Len(OtherRows(ReadCsv(prevFile), today)) >= 2

----------------------------------------------------------------------------
(* Properties of the interrupted rewrite, under SpecCrash *)

\* C15: crash safety: a run interrupted during save_csv() leaves the file with
\* either the complete old content or the complete new content, never truncated
\* and never doubled.
C15_OldOrNewAfterInterrupt ==
    (outcome = "interrupted") =>
        \/ ReadCsv(file) = ReadCsv(prevFile)
        \/ ReadCsv(file) = SaveCsvFile(prevFile, rows).rows

----------------------------------------------------------------------------
(* Properties of the runs of main(), under Spec *)

\* C3: key uniqueness: after any sequence of runs from an absent or empty file the
\* dataset holds at most one row per (date, building).
C3_KeyUnique ==
    \A i, j \in 1..Len(ReadCsv(file)) :
        (ReadCsv(file)[i].date = ReadCsv(file)[j].date
            /\ ReadCsv(file)[i].building = ReadCsv(file)[j].building) => i = j

\* a date was scraped and saved again while the file held another date too
C3_Witness ==
    /\ outcome = "saved"
    /\ DateRows(ReadCsv(prevFile), today) # <<>>
    /\ OtherRows(file.rows, today) # <<>>

\* C4: a fetch failure leaves the dataset unchanged: nothing is extracted, nothing
\* is merged, the file holds the rows it held and is not created if it was absent.
C4_FetchFailureKeepsFile ==
    (outcome = "fetch_failed") => (rows = <<>> /\ file = prevFile)

C4_Witness ==
    /\ outcome = "fetch_failed"
    /\ file.exists
    /\ file.rows # <<>>

C4_WitnessAbsent ==
    /\ outcome = "fetch_failed"
    /\ ~file.exists

\* C5: every run that ends has rewritten the report from the dataset as persisted
\* at that moment.
C5_ReportAlwaysWritten ==
    (outcome \in {"saved", "fetch_failed"}) =>
        (report = [exists |-> TRUE, rows |-> ReadCsv(file)])

\* C8: completeness per date: the dataset holds exactly one row per building for
\* each date that had a successful fetch, and no other row.
C8_CompletePerDate ==
    /\ Len(ReadCsv(file)) = Cardinality(fetched) * Len(BUILDINGS)
    /\ \A t \in fetched : \A b \in BuildingSet :
           Cardinality({k \in 1..Len(ReadCsv(file)) :
                           ReadCsv(file)[k].date = t /\ ReadCsv(file)[k].building = b}) = 1

\* C9: last write wins within a day: after a run that saved, the rows persisted
\* for its date are exactly the rows of that run, whatever the date held before.
C9_LastWriteWins ==
    (outcome = "saved") => (DateRows(file.rows, today) = ToCsvRows(rows))

\* the date held other values before, and the run that replaced them scraped zeros
C9_Witness ==
    /\ outcome = "saved"
    /\ DateRows(ReadCsv(prevFile), today) # <<>>
    /\ DateRows(ReadCsv(prevFile), today) # DateRows(file.rows, today)
    /\ \A k \in 1..Len(rows) : rows[k].offices = 0 /\ rows[k].m2 = 0

\* C10: no run ends in an unhandled failure.
C10_NoUnhandledFailure ==
    outcome # "crashed"

----------------------------------------------------------------------------
(* Properties of generate_report(), under SpecReport *)

HasRow(rs, d, b) == \E k \in 1..Len(rs) : rs[k].date = d /\ rs[k].building = b
OtherBuilding(b) == IF b = "SCALA" THEN "JAKUB" ELSE "SCALA"
CountSeq(b) == IF b = "SCALA" THEN series.scala_count ELSE series.jakub_count
AreaSeq(b) == IF b = "SCALA" THEN series.scala_m2 ELSE series.jakub_m2
SixSequences ==
    {series.scala_m2, series.jakub_m2, series.total_m2,
     series.scala_count, series.jakub_count, series.total_count}

\* C11: missing-building default: every date of the dataset has an index, and
\* where a date has a row for only one building the other building's entries at
\* that index are 0 in its office and its area sequence, and the totals there are
\* the present building's values.
C11_MissingBuildingIsZero ==
    (outcome = "reported") =>
        /\ \A k \in 1..Len(report.rows) :
               \E i \in 1..Len(series.dates) : series.dates[i] = report.rows[k].date
        /\ \A i \in 1..Len(series.dates) : \A b \in BuildingSet :
               (~HasRow(report.rows, series.dates[i], b)
                    /\ HasRow(report.rows, series.dates[i], OtherBuilding(b)))
               => /\ \A q \in SixSequences : i <= Len(q)
                  /\ CountSeq(b)[i] = 0
                  /\ AreaSeq(b)[i] = 0
                  /\ series.total_count[i] =
                         DailyGet(report.rows, series.dates[i], OtherBuilding(b)).offices
                  /\ series.total_m2[i] =
                         DailyGet(report.rows, series.dates[i], OtherBuilding(b)).m2

\* two dates, the later one with a row for JAKUB only, with values other than zero
C11_Witness ==
    /\ outcome = "reported"
    /\ Len(series.dates) = 2
    /\ HasRow(report.rows, series.dates[1], "SCALA")
    /\ ~HasRow(report.rows, series.dates[2], "SCALA")
    /\ series.jakub_count[2] = 12
    /\ series.total_m2[2] = 340

Reverse(q) == [i \in 1..Len(q) |-> q[Len(q) + 1 - i]]

\* C12: the date sequence is strictly ascending in string order without
\* duplicates, holds exactly the dates of the dataset whatever the order of its
\* rows, and a row of a date not yet in the dataset extends it by that one
\* entry, at the position the string order gives it.
C12_DatesAscendingAndMonotonic ==
    (outcome = "reported") =>
        /\ \A i, j \in 1..Len(series.dates) :
               i < j => StrLess(series.dates[i], series.dates[j])
        /\ {series.dates[i] : i \in 1..Len(series.dates)}
               = {report.rows[k].date : k \in 1..Len(report.rows)}
        /\ Aggregate(Reverse(report.rows)).dates = series.dates
        /\ \A r \in AggRows :
               (\A i \in 1..Len(series.dates) : series.dates[i] # r.date) =>
                   LET ext == Aggregate(Append(report.rows, r)).dates
                   IN  /\ Len(ext) = Len(series.dates) + 1
                       /\ \E p \in 1..Len(ext) :
                              /\ ext[p] = r.date
                              /\ SubSeq(ext, 1, p - 1) \o SubSeq(ext, p + 1, Len(ext))
                                     = series.dates
                              /\ p > 1 => StrLess(ext[p - 1], r.date)
                              /\ p < Len(ext) => StrLess(r.date, ext[p + 1])

\* the file holds the latest date first and the date between the two is missing
C12_Witness ==
    /\ outcome = "reported"
    /\ series.dates = <<D1, D3>>
    /\ report.rows[1].date = D3
    /\ report.rows[Len(report.rows)].date = D1

\* C13: the six sequences are as long as the date list and at every index the
\* totals are the sums of the two buildings' values for that date; SCALA (12, 340)
\* and JAKUB (0, 0) on 2024-01-01 merged into an empty dataset give dates
\* [2024-01-01] and totals [12] and [340].
C13_ParallelAndSums ==
    (outcome = "reported") =>
        /\ \A q \in SixSequences : Len(q) = Len(series.dates)
        /\ \A i \in 1..Len(series.dates) :
               /\ series.total_count[i] =
                      DailyGet(report.rows, series.dates[i], "SCALA").offices
                        + DailyGet(report.rows, series.dates[i], "JAKUB").offices
               /\ series.total_m2[i] =
                      DailyGet(report.rows, series.dates[i], "SCALA").m2
                        + DailyGet(report.rows, series.dates[i], "JAKUB").m2
        /\ (file = SaveCsvFile(NoFile, <<Row(D1, "SCALA", <<12, 340>>),
                                         Row(D1, "JAKUB", <<0, 0>>)>>))
               => /\ series.dates = <<D1>>
                  /\ series.scala_count = <<12>> /\ series.scala_m2 = <<340>>
                  /\ series.jakub_count = <<0>> /\ series.jakub_m2 = <<0>>
                  /\ series.total_count = <<12>> /\ series.total_m2 = <<340>>

\* both buildings have values other than zero on one of two dates
C13_Witness ==
    /\ outcome = "reported"
    /\ Len(series.dates) = 2
    /\ series.scala_count[2] = 12
    /\ series.jakub_count[2] = 5
    /\ series.total_count[2] = 17
    /\ series.total_m2[2] = 350

\* the dataset of the scenario, reported
C13_WitnessScenario ==
    /\ outcome = "reported"
    /\ file = SaveCsvFile(NoFile, <<Row(D1, "SCALA", <<12, 340>>),
                                    Row(D1, "JAKUB", <<0, 0>>)>>)

\* C17: current snapshot: for a dataset with rows the current values of each
\* building are its values at the greatest date, the last index of the
\* sequences, zero without a row for that date, wherever that date's rows are in
\* the file; for an empty dataset they are zero and there is no latest date.
C17_CurrentIsLatestDate ==
    (outcome = "reported") =>
        IF Len(report.rows) = 0
        THEN /\ ~series.hasLatest
             /\ series.current_scala = [offices |-> 0, m2 |-> 0]
             /\ series.current_jakub = [offices |-> 0, m2 |-> 0]
        ELSE /\ series.hasLatest
             /\ \E k \in 1..Len(report.rows) : report.rows[k].date = series.latest
             /\ \A k \in 1..Len(report.rows) :
                    \/ report.rows[k].date = series.latest
                    \/ StrLess(report.rows[k].date, series.latest)
             /\ series.current_scala =
                    [offices |-> series.scala_count[Len(series.dates)],
                     m2 |-> series.scala_m2[Len(series.dates)]]
             /\ series.current_jakub =
                    [offices |-> series.jakub_count[Len(series.dates)],
                     m2 |-> series.jakub_m2[Len(series.dates)]]
             /\ \A b \in BuildingSet :
                    ~HasRow(report.rows, series.latest, b) =>
                        (IF b = "SCALA" THEN series.current_scala
                         ELSE series.current_jakub) = [offices |-> 0, m2 |-> 0]

\* the rows of the greatest date come first in the file, JAKUB has none for it
C17_Witness ==
    /\ outcome = "reported"
    /\ Len(report.rows) = 3
    /\ report.rows[1].date = series.latest
    /\ report.rows[3].date # series.latest
    /\ series.current_scala = [offices |-> 12, m2 |-> 340]
    /\ ~HasRow(report.rows, series.latest, "JAKUB")

----------------------------------------------------------------------------
(* Properties of scrape(), under SpecExtract *)

CoreOf(d) == SelectSeq(d, LAMBDA n : n \notin Unrelated)

\* index in d of its n-th element that is not unrelated
CorePos(d, n) ==
    CHOOSE k \in 1..Len(d) :
        /\ d[k] \notin Unrelated
        /\ Cardinality({j \in 1..k : d[j] \notin Unrelated}) = n

\* an anchor carrying an href lies between an anchor of a pair and its summary
LinkInsidePair(d) ==
    \E k \in 1..Len(d) :
        /\ d[k].kind = "a" /\ d[k].hasHref
        /\ \/ CorePos(d, 1) < k /\ k < CorePos(d, 2)
           \/ CorePos(d, 3) < k /\ k < CorePos(d, 4)

ExpectedPair(summary) ==
    [offices |-> ParseInt(StripNonDigits(summary.spans[1])),
     m2 |-> ParseInt(StripNonDigits(summary.spans[2]))]

PairsExtracted(d) ==
    /\ Len(rows) = 2
    /\ rows[1].building = "SCALA"
    /\ rows[1].offices = ExpectedPair(CoreOf(d)[2]).offices
    /\ rows[1].m2 = ExpectedPair(CoreOf(d)[2]).m2
    /\ rows[2].building = "JAKUB"
    /\ rows[2].offices = ExpectedPair(CoreOf(d)[4]).offices
    /\ rows[2].m2 = ExpectedPair(CoreOf(d)[4]).m2

\* C6 as stated: for a document holding the SCALA anchor, its summary, the JAKUB
\* anchor and its summary in this order, extraction returns the two expected
\* pairs whatever unrelated elements lie between or around the four.
C6_PairsWhateverBetween ==
    (outcome = "scraped" /\ CoreOf(doc) \in Cores) => PairsExtracted(doc)

\* C6 amended: ... returns the two expected pairs whatever unrelated elements lie
\* between or around the four, provided no anchor carrying an href lies between a
\* building's anchor and its summary.
C6_PairsUnlessLinkInside ==
    (outcome = "scraped" /\ CoreOf(doc) \in Cores /\ ~LinkInsidePair(doc))
        => PairsExtracted(doc)

\* unrelated elements, an anchor with an unknown href among them, around the pairs
\* and an anchor without href inside one
C6_Witness ==
    /\ outcome = "scraped"
    /\ CoreOf(doc) \in Cores
    /\ ~LinkInsidePair(doc)
    /\ CorePos(doc, 2) > CorePos(doc, 1) + 1
    /\ \E k \in 1..Len(doc) : doc[k] = AUnknown
    /\ rows[1].offices # 0

RemoveAt(d, i) == SubSeq(d, 1, i - 1) \o SubSeq(d, i + 1, Len(d))

\* the summary at i has no preceding anchor with an href, or the nearest one's
\* href contains no known slug
Unanchored(d, i) ==
    LET prior == {j \in 1..(i - 1) : d[j].kind = "a" /\ d[j].hasHref}
    IN  \/ prior = {}
        \/ \A j \in prior :
              (\A k \in prior : k <= j) =>
                  \A s \in 1..Len(slug_to_building) :
                      ~SlugIn(slug_to_building[s].slug, d[j].href)

\* C7: a summary block with no preceding anchor-with-href, or whose nearest one
\* has no known slug, contributes nothing: scrape() returns what it returns for
\* the document without that block.
C7_UnanchoredContributesNothing ==
    (outcome \in {"scraped", "crashed"}) =>
        \A i \in 1..Len(doc) :
            (IsSummary(doc[i]) /\ Unanchored(doc, i)) =>
                LET without == ScrapeResult(TRUE, RemoveAt(doc, i), today)
                IN  /\ without.rows = rows
                    /\ (without.status = "raised") = (outcome = "crashed")

\* a two-field summary behind an unknown anchor, with a known anchor further back
C7_Witness ==
    /\ outcome = "scraped"
    /\ \E i \in 1..Len(doc) :
          /\ IsSummary(doc[i]) /\ Unanchored(doc, i)
          /\ Len(doc[i].spans) >= 2
          /\ \E j \in 1..(i - 1) : doc[j] = AScala
          /\ rows[1].offices = 0


\* the summaries of d matched to building b: resolved to it, with two sub-fields
MatchedTo(d, b) ==
    {i \in 1..Len(d) :
        IsSummary(d[i]) /\ ResolveBuilding(d, i) = b /\ Len(d[i].spans) >= 2}

\* C14: zero-fill on fetch success: whatever the markup, scrape() returns one row
\* per building, in the order SCALA, JAKUB, all dated today, with offices = 0 and
\* m2 = 0 for every building no summary block was matched to.
C14_ZeroFillOnFetchSuccess ==
    (outcome \in {"scraped", "crashed"}) =>
        /\ Len(rows) = Len(BUILDINGS)
        /\ \A k \in 1..Len(rows) :
               /\ rows[k].building = BUILDINGS[k]
               /\ rows[k].date = today
               /\ MatchedTo(doc, BUILDINGS[k]) = {} =>
                      (rows[k].offices = 0 /\ rows[k].m2 = 0)

\* C14, for the calls of scrape() that return
C14_ZeroFillWhenReturned ==
    (outcome = "scraped") =>
        /\ Len(rows) = Len(BUILDINGS)
        /\ \A k \in 1..Len(rows) :
               /\ rows[k].building = BUILDINGS[k]
               /\ rows[k].date = today
               /\ MatchedTo(doc, BUILDINGS[k]) = {} =>
                      (rows[k].offices = 0 /\ rows[k].m2 = 0)

RowOf(b) == rows[CHOOSE k \in 1..Len(BUILDINGS) : BUILDINGS[k] = b]

\* C18: when several summary blocks resolve to one building, the value scrape()
\* returns for it is that of the last of them that has two sub-fields; a later
\* block for it with fewer sub-fields changes nothing.
C18_LastFullBlockWins ==
    (outcome = "scraped") =>
        \A b \in BuildingSet :
            MatchedTo(doc, b) # {} =>
                LET last == CHOOSE i \in MatchedTo(doc, b) :
                                \A j \in MatchedTo(doc, b) : j <= i
                IN  /\ RowOf(b).offices = ExpectedPair(doc[last]).offices
                    /\ RowOf(b).m2 = ExpectedPair(doc[last]).m2

\* two full blocks with different values, then a one-field block, all for SCALA
C18_Witness ==
    /\ outcome = "scraped"
    /\ \E i, j, k \in 1..Len(doc) :
          /\ i < j /\ j < k
          /\ {i, j} = MatchedTo(doc, "SCALA")
          /\ ExpectedPair(doc[i]) # ExpectedPair(doc[j])
          /\ IsSummary(doc[k]) /\ ResolveBuilding(doc, k) = "SCALA"
          /\ Len(doc[k].spans) < 2

====
